---- MODULE Spec2Model ----
(***************************************************************************)
(* The Gauss-Newton solver of notebooks/pygimli_ert/tmp/                   *)
(* pygimli_ert_gauss_newton.py (class GaussNewton) and the objective /     *)
(* gradient / Hessian functions it is run with, together with the variants *)
(* of those functions in pygimli_ert_scipy_minimize.py and in              *)
(* notebooks/pygimli_dcip/tmp/pygimli_dcip_lib.py.                         *)
(*                                                                         *)
(* Numbers are exact rationals <<num, den>> (den > 0, lowest terms), plus   *)
(* one non-finite value <<0, 0>> standing for IEEE nan and +-inf, and one  *)
(* value <<1, 0>> standing for any finite real that is not known exactly   *)
(* (exp of a non-zero number): the model abstracts IEEE rounding, nothing  *)
(* else.                                                                   *)
(***************************************************************************)
EXTENDS Integers, Sequences, FiniteSets, TLC

\* ------------------------------------------------------------- bounds
MaxLen == 2      \* longest model vector / largest array side drawn
MaxNiter == 2    \* largest iteration count drawn

\* ------------------------------------------------------------- rationals
Abs(n) == IF n < 0 THEN -n ELSE n

RECURSIVE GCD(_, _)
GCD(a, b) == IF b = 0 THEN a ELSE GCD(b, a % b)

NonFinite == <<0, 0>>
Inexact == <<1, 0>>

Norm(n, d) ==
    IF d = 0
    THEN NonFinite
    ELSE LET g == GCD(Abs(n), Abs(d))
             s == IF d < 0 THEN -1 ELSE 1
         IN  <<(s * n) \div g, (s * d) \div g>>

R(n) == <<n, 1>>
RAdd(x, y) ==
    IF x = NonFinite \/ y = NonFinite
    THEN NonFinite
    ELSE IF x[2] = 0 \/ y[2] = 0
    THEN Inexact
    ELSE LET g == GCD(x[2], y[2])
         IN  Norm(x[1] * (y[2] \div g) + y[1] * (x[2] \div g), (x[2] \div g) * y[2])
RNeg(x) == IF x[2] = 0 THEN x ELSE <<-x[1], x[2]>>
RSub(x, y) == RAdd(x, RNeg(y))
RMul(x, y) ==
    IF x = NonFinite \/ y = NonFinite
    THEN NonFinite
    ELSE IF x[2] = 0 \/ y[2] = 0
    THEN (IF x = <<0, 1>> \/ y = <<0, 1>> THEN <<0, 1>> ELSE Inexact)
    ELSE LET g == GCD(Abs(x[1]), y[2])
             h == GCD(Abs(y[1]), x[2])
         IN  Norm((x[1] \div g) * (y[1] \div h), (x[2] \div h) * (y[2] \div g))
RDiv(x, y) ==
    IF y[1] = 0
    THEN NonFinite
    ELSE IF y[2] = 0 THEN RMul(x, Inexact) ELSE RMul(x, Norm(y[2], y[1]))
RAbs(x) == IF x[2] = 0 THEN x ELSE <<Abs(x[1]), x[2]>>
Zero == R(0)
RLe(x, y) == x[2] # 0 /\ y[2] # 0 /\ x[1] * y[2] <= y[1] * x[2]
IsFinite(x) == x # NonFinite
IsExact(a) == \A k \in 1..Len(a) : a[k][2] # 0

\* np.exp(np.log(x)): x for x > 0, 0.0 for x = 0 (log gives -inf), nan for x < 0
ExpLog(x) == IF x[2] # 0 /\ x[1] >= 0 THEN x ELSE NonFinite

\* ------------------------------------------------------------- arrays
\* A numpy array: nd is its number of dimensions, v its entries (nd = 1: a
\* sequence of rationals; nd = 2: a sequence of equally long rows).  None is
\* Python's None / an unbound local.
A1(s) == [nd |-> 1, v |-> s]
A2(rows) == [nd |-> 2, v |-> rows]
None == [nd |-> 0, v |-> <<>>]

Vec(s) == A1([k \in 1..Len(s) |-> R(s[k])])
Mat(rows) == A2([r \in 1..Len(rows) |-> [k \in 1..Len(rows[r]) |-> R(rows[r][k])]])

Size(a) == Len(a.v)
NRows(a) == Len(a.v)
NCols(a) == Len(a.v[1])

\* outcome of a call: a value, or a raised exception
NoExc == [type |-> "", msg |-> ""]
Ok(x) == [ok |-> TRUE, val |-> x, exc |-> NoExc]
Raise(t, m) == [ok |-> FALSE, val |-> None, exc |-> [type |-> t, msg |-> m]]

\* -a with the minus sign lost
NotNegated(a) == a

\* -a on an array (elementwise)
Negative(a) ==
    IF a.nd = 1
    THEN A1([k \in 1..Len(a.v) |-> RNeg(a.v[k])])
    ELSE A2([r \in 1..Len(a.v) |-> [k \in 1..Len(a.v[r]) |-> RNeg(a.v[r][k])]])

\* a + b on 1-D arrays, with numpy's broadcasting: equal lengths add
\* elementwise, a length-1 operand is stretched, anything else is a ValueError
Add(a, b) ==
    LET la == Size(a)
        lb == Size(b)
        n == IF la >= lb THEN la ELSE lb
        at(x, k) == IF Size(x) = 1 THEN x.v[1] ELSE x.v[k]
    IN  IF la = lb \/ la = 1 \/ lb = 1
        THEN Ok(A1([k \in 1..n |-> RAdd(at(a, k), at(b, k))]))
        ELSE Raise("ValueError", "operands could not be broadcast together")

\* ------------------------------------------------------------- linear algebra
RECURSIVE SumSeq(_)
SumSeq(s) == IF Len(s) = 0 THEN Zero ELSE RAdd(s[1], SumSeq(Tail(s)))

Dot(x, y) == SumSeq([k \in 1..Len(x) |-> RMul(x[k], y[k])])

\* rows r of a matrix (a sequence of rows) without row 1 and column c
Minor(rows, c) ==
    [r \in 1..(Len(rows) - 1) |->
        [k \in 1..(Len(rows) - 1) |-> rows[r + 1][IF k < c THEN k ELSE k + 1]]]

RECURSIVE Det(_)
Det(rows) ==
    IF Len(rows) = 1
    THEN rows[1][1]
    ELSE SumSeq([c \in 1..Len(rows) |->
            RMul(IF c % 2 = 1 THEN rows[1][c] ELSE RNeg(rows[1][c]),
                 Det(Minor(rows, c)))])

\* matrices as sequences of rows
Transpose(rows) == [c \in 1..Len(rows[1]) |-> [r \in 1..Len(rows) |-> rows[r][c]]]
MatVec(rows, x) == [r \in 1..Len(rows) |-> Dot(rows[r], x)]
VecMat(x, rows) == MatVec(Transpose(rows), x)
MatMul(a, b) == [r \in 1..Len(a) |-> VecMat(a[r], b)]
MatAdd(a, b) == [r \in 1..Len(a) |-> [c \in 1..Len(a[r]) |-> RAdd(a[r][c], b[r][c])]]
MatScale(k, a) == [r \in 1..Len(a) |-> [c \in 1..Len(a[r]) |-> RMul(k, a[r][c])]]
VecAdd(x, y) == [k \in 1..Len(x) |-> RAdd(x[k], y[k])]
VecSub(x, y) == [k \in 1..Len(x) |-> RSub(x[k], y[k])]
VecScale(k, x) == [j \in 1..Len(x) |-> RMul(k, x[j])]

ReplaceCol(rows, c, b) ==
    [r \in 1..Len(rows) |-> [k \in 1..Len(rows) |-> IF k = c THEN b[r] ELSE rows[r][k]]]

\* the unique x with rows . x = b (Cramer's rule), for Det(rows) # 0
SolveExact(rows, b) ==
    LET d == Det(rows)
    IN  [c \in 1..Len(rows) |-> RDiv(Det(ReplaceCol(rows, c, b)), d)]

\* ------------------------------------------------------------- shapes
IsSquare(a, n) == a.nd = 2 /\ NRows(a) = n /\ NCols(a) = n
IsZeroVec(a) == a.nd = 1 /\ \A k \in 1..Size(a) : a.v[k] = Zero
Singular(a) == a.nd = 2 /\ NRows(a) = NCols(a) /\ Det(a.v) = Zero
AllFinite(a) == a.nd = 1 /\ \A k \in 1..Size(a) : IsFinite(a.v[k])
ZeroVec(k) == A1([j \in 1..k |-> Zero])

\* a solve that does not report a singular matrix: the step is skipped
LinalgSolveUnchecked(a, b) ==
    IF a.nd < 2
    THEN Raise("LinAlgError", "array must be at least two-dimensional")
    ELSE IF NRows(a) # NCols(a)
    THEN Raise("LinAlgError", "Last 2 dimensions of the array must be square")
    ELSE IF Size(b) # NRows(a)
    THEN Raise("ValueError", "solve1: mismatch in its core dimension")
    ELSE IF Det(a.v) = Zero
    THEN Ok(ZeroVec(NRows(a)))
    ELSE Ok(A1(SolveExact(a.v, b.v)))

\* np.linalg.solve(a, b) for a 1-D right-hand side
LinalgSolve(a, b) ==
    IF a.nd < 2
    THEN Raise("LinAlgError", "array must be at least two-dimensional")
    ELSE IF NRows(a) # NCols(a)
    THEN Raise("LinAlgError", "Last 2 dimensions of the array must be square")
    ELSE IF Size(b) # NRows(a)
    THEN Raise("ValueError", "solve1: mismatch in its core dimension")
    ELSE IF Det(a.v) = Zero
    THEN Raise("LinAlgError", "Singular matrix")
    ELSE Ok(A1(SolveExact(a.v, b.v)))

\* ------------------------------------------------------------- the ERT functions
\* pygimli's ERTModelling is outside the repository.  It is taken here as an
\* operator with sensitivity matrix G whose response is exp(G.model), entry by
\* entry, so that the logarithm the functions below take is exact: a positive
\* real exp(q) is carried as its logarithm q.
ForwardResponse(forward_operator, model) == MatVec(forward_operator.G, model.v)

\* forward_operator.jacobian(): d response_r / d model_c = exp(lg[r]) * coef[r][c]
ForwardJacobian(forward_operator, model) ==
    [coef |-> forward_operator.G, lg |-> MatVec(forward_operator.G, model.v)]

\* exp(q): rational at q = 0 only
Exp(q) == IF q = Zero THEN R(1) ELSE IF q = NonFinite THEN NonFinite ELSE Inexact

\* np.log(np.array(forward_operator.response(model)))
get_response(model, forward_operator) == A1(ForwardResponse(forward_operator, model))

get_residual(model, log_data, forward_operator) ==
    A1(VecSub(log_data.v, get_response(model, forward_operator).v))

\* J / np.exp(response[:, np.newaxis]) * np.exp(np.log(model))[np.newaxis, :]
Rescale(J, response, model) ==
    A2([r \in 1..Len(J.coef) |-> [c \in 1..Len(J.coef[r]) |->
        RMul(RMul(J.coef[r][c], Exp(RSub(J.lg[r], response.v[r]))), ExpLog(model.v[c]))]])

get_jacobian(model, forward_operator) ==
    LET response == get_response(model, forward_operator)
        J == ForwardJacobian(forward_operator, model)
    IN  Rescale(J, response, model)

get_jac_residual(model, log_data, forward_operator) ==
    LET response == get_response(model, forward_operator)
        residual == A1(VecSub(log_data.v, response.v))
        J == ForwardJacobian(forward_operator, model)
    IN  [jac |-> Rescale(J, response, model), residual |-> residual]

get_data_misfit(model, log_data, forward_operator) ==
    LET residual == get_residual(model, log_data, forward_operator)
    IN  Dot(residual.v, residual.v)

get_regularisation(model, Wm, lamda) ==
    RMul(lamda, Dot(MatVec(Wm.v, model.v), MatVec(Wm.v, model.v)))

get_objective(model, log_data, forward_operator, Wm, lamda) ==
    LET data_misfit == get_data_misfit(model, log_data, forward_operator)
        regularisation == get_regularisation(model, Wm, lamda)
    IN  RAdd(data_misfit, regularisation)

get_gradient(model, log_data, forward_operator, Wm, lamda) ==
    LET jr == get_jac_residual(model, log_data, forward_operator)
        data_misfit_grad == VecMat(VecScale(R(-2), jr.residual.v), jr.jac.v)
        regularisation_grad ==
            MatVec(MatMul(MatScale(RMul(R(2), lamda), Transpose(Wm.v)), Wm.v), model.v)
    IN  A1(VecAdd(data_misfit_grad, regularisation_grad))

get_hessian(model, log_data, forward_operator, Wm, lamda) ==
    LET jac == get_jacobian(model, forward_operator)
    IN  A2(MatAdd(MatMul(Transpose(jac.v), jac.v),
                  MatMul(MatScale(lamda, Transpose(Wm.v)), Wm.v)))

\* ------------------------------------------------------------- pygimli_ert_scipy_minimize.py
\* Its get_response, get_residual, get_jacobian and get_jac_residual are, word
\* for word, those of pygimli_ert_gauss_newton.py above.
scipy_get_data_misfit(model, log_data, forward_operator) ==
    LET residual == get_residual(model, log_data, forward_operator)
    IN  RAbs(Dot(residual.v, residual.v))

scipy_get_regularisation(model, Wm, lamda) ==
    Dot(VecScale(lamda, MatVec(Wm.v, model.v)), MatVec(Wm.v, model.v))

scipy_get_objective(model, log_data, forward_operator, Wm, lamda) ==
    LET data_misfit == scipy_get_data_misfit(model, log_data, forward_operator)
        regularisation == scipy_get_regularisation(model, Wm, lamda)
    IN  RAdd(data_misfit, regularisation)

scipy_get_gradient(model, log_data, forward_operator, Wm, lamda) ==
    LET jr == get_jac_residual(model, log_data, forward_operator)
        data_misfit_grad == VecMat(Negative(jr.residual).v, jr.jac.v)
        regularisation_grad ==
            MatVec(MatMul(MatScale(lamda, Transpose(Wm.v)), Wm.v), model.v)
    IN  A1(VecAdd(data_misfit_grad, regularisation_grad))

scipy_get_hessian(model, log_data, forward_operator, Wm, lamda) ==
    LET jac == get_jacobian(model, forward_operator)
    IN  A2(MatAdd(MatMul(Transpose(jac.v), jac.v),
                  MatMul(MatScale(lamda, Transpose(Wm.v)), Wm.v)))

\* ------------------------------------------------------------- pygimli_dcip_lib.py
\* "all functions below assume the model in log space": the operator is given
\* exp(model).  Models here are real (squeezeComplex returns a real array as
\* it is).  The operator is taken as a power law: its response to the positive
\* reals x is exp(G.log x), entry by entry, both carried as their logarithms,
\* which makes the log response G.model.
dcip_ForwardResponse(forward_operator, log_x) == MatVec(forward_operator.G, log_x)

\* forward_operator.jacobian(): d response_r / d x_c = exp(lg[r] - arg[c]) * coef[r][c]
dcip_ForwardJacobian(forward_operator, log_x) ==
    [coef |-> forward_operator.G, lg |-> MatVec(forward_operator.G, log_x), arg |-> log_x]

\* np.exp(model), entry by entry
ExpVec(x) == [k \in 1..Len(x) |-> Exp(x[k])]

\* np.eye(n)
Eye(n) == A2([r \in 1..n |-> [c \in 1..n |-> IF r = c THEN R(1) ELSE Zero]])

\* x_re_im = np.exp(squeezeComplex(model)); np.log(np.array(response(x_re_im)))
dcip_get_response(model, forward_operator) ==
    A1(dcip_ForwardResponse(forward_operator, model.v))

dcip_get_residual(model, log_data, forward_operator) ==
    A1(VecSub(log_data.v, dcip_get_response(model, forward_operator).v))

\* J / np.exp(response[:, np.newaxis]) * np.exp(model)[np.newaxis, :]
dcip_Rescale(J, response, model) ==
    A2([r \in 1..Len(J.coef) |-> [c \in 1..Len(J.coef[r]) |->
        RMul(J.coef[r][c],
             Exp(RAdd(RSub(RSub(J.lg[r], J.arg[c]), response.v[r]), model.v[c])))]])

dcip_get_jacobian(model, forward_operator) ==
    LET response == dcip_get_response(model, forward_operator)
        J == dcip_ForwardJacobian(forward_operator, model.v)
    IN  dcip_Rescale(J, response, model)

dcip_get_jac_residual(model, log_data, forward_operator) ==
    LET response == dcip_get_response(model, forward_operator)
        residual == A1(VecSub(log_data.v, response.v))
        J == dcip_ForwardJacobian(forward_operator, model.v)
    IN  [jac |-> dcip_Rescale(J, response, model), residual |-> residual]

\* a weighting that is never used: the identity whatever was supplied
DataCovInvIgnored(log_data, data_cov_inv) == Eye(Size(log_data))

\* data_cov_inv = np.eye(log_data.shape[0]) if data_cov_inv is None else data_cov_inv
DataCovInv(log_data, data_cov_inv) ==
    IF data_cov_inv = None THEN Eye(Size(log_data)) ELSE data_cov_inv

dcip_get_data_misfit(model, log_data, forward_operator, data_cov_inv) ==
    LET residual == dcip_get_residual(model, log_data, forward_operator)
        cov == DataCovInv(log_data, data_cov_inv)
    IN  RAbs(Dot(VecMat(residual.v, cov.v), residual.v))

\* model = np.exp(model); lamda * (Wm @ model).T @ (Wm @ model)
dcip_get_regularisation(model, Wm, lamda) ==
    LET exp_model == ExpVec(model.v)
    IN  Dot(VecScale(lamda, MatVec(Wm.v, exp_model)), MatVec(Wm.v, exp_model))

dcip_get_objective(model, log_data, forward_operator, Wm, lamda, data_cov_inv) ==
    LET data_misfit == dcip_get_data_misfit(model, log_data, forward_operator, data_cov_inv)
        regularisation == dcip_get_regularisation(model, Wm, lamda)
    IN  RAdd(data_misfit, regularisation)

dcip_get_gradient(model, log_data, forward_operator, Wm, lamda, data_cov_inv) ==
    LET jr == dcip_get_jac_residual(model, log_data, forward_operator)
        cov == DataCovInv(log_data, data_cov_inv)
        data_misfit_grad == VecMat(VecMat(Negative(jr.residual).v, cov.v), jr.jac.v)
        regularisation_grad ==
            MatVec(MatMul(MatScale(lamda, Transpose(Wm.v)), Wm.v), ExpVec(model.v))
    IN  A1(VecAdd(data_misfit_grad, regularisation_grad))

dcip_get_hessian(model, log_data, forward_operator, Wm, lamda, data_cov_inv) ==
    LET jac == dcip_get_jacobian(model, forward_operator)
        cov == DataCovInv(log_data, data_cov_inv)
    IN  A2(MatAdd(MatMul(MatMul(Transpose(jac.v), cov.v), jac.v),
                  MatMul(MatScale(lamda, Transpose(Wm.v)), Wm.v)))

\* ------------------------------------------------------------- a quadratic objective
\* Evaluators a caller may register in place of the script's: the objective
\* f(m) = 1/2 m.A.m - b.m with its analytic gradient A.m - b and Hessian A.
QuadObjective(prob, m) ==
    RSub(RMul(<<1, 2>>, Dot(m.v, MatVec(prob.A.v, m.v))), Dot(prob.b.v, m.v))
QuadGradient(prob, m) == A1(VecSub(MatVec(prob.A.v, m.v), prob.b.v))
\* The Hessian evaluator may return a multiple of A, and one that depends on
\* the model: hneg.A where the first entry of m is <= 0, hpos.A elsewhere
\* (hneg = hpos = 1: the analytic Hessian).
QuadHessian(prob, m) ==
    A2(MatScale(R(IF RLe(m.v[1], Zero) THEN prob.hneg ELSE prob.hpos), prob.A.v))

\* ------------------------------------------------------------- evaluators
\* The callables of inv_problem are opaque to the solver.  An "opaque"
\* problem may answer any call with any array of the sets below or raise.
ConstVec(k, c) == Vec([j \in 1..k |-> c])
UnitVec(k) == Vec([j \in 1..k |-> IF j = 1 THEN 1 ELSE 0])
Diag(k, c) == Mat([r \in 1..k |-> [j \in 1..k |-> IF r = j THEN c ELSE 0]])
Ones(k) == Mat([r \in 1..k |-> [j \in 1..k |-> 1]])
DiagPlusOnes(k) == Mat([r \in 1..k |-> [j \in 1..k |-> IF r = j THEN 2 ELSE 1]])

Lens == 1..MaxLen

OpaqueHessians ==
    UNION {{Diag(k, 1), Diag(k, 0), Ones(k), DiagPlusOnes(k)} : k \in Lens}
    \cup {Mat(<<<<1, 0>>>>), Vec(<<1>>)}

OpaqueGradients == UNION {{ConstVec(k, 0), UnitVec(k)} : k \in Lens}

EvaluatorError(who) == Raise("RuntimeError", who)

\* inv_problem.hessian: what set_hessian registered, with its args
HessianOutcomes(prob, m) ==
    CASE prob.kind = "opaque" ->
            {Ok(h) : h \in OpaqueHessians} \cup {EvaluatorError("hessian")}
      [] prob.kind = "quadratic" -> {Ok(QuadHessian(prob, m))}
      [] prob.kind = "ert" ->
            {Ok(get_hessian(m, prob.log_data, prob.forward_operator, prob.Wm, prob.lamda))}

\* inv_problem.gradient: what set_gradient registered, with its args
GradientOutcomes(prob, m) ==
    CASE prob.kind = "opaque" ->
            {Ok(g) : g \in OpaqueGradients} \cup {EvaluatorError("gradient")}
      [] prob.kind = "quadratic" -> {Ok(QuadGradient(prob, m))}
      [] prob.kind = "ert" ->
            {Ok(get_gradient(m, prob.log_data, prob.forward_operator, prob.Wm, prob.lamda))}

\* data_misfit / regularisation return a scalar that is only printed
MisfitOutcomes(prob, m) == {Ok(None), EvaluatorError("data_misfit")}
RegOutcomes(prob, m) == {Ok(None), EvaluatorError("regularisation")}

\* ------------------------------------------------------------- state
VARIABLES
    problem,        \* inv_problem: the evaluators the solver was built over
    self,           \* the GaussNewton instance (fields set by __init__)
    pc,             \* position of __call__
    i,              \* loop variable of `for i in range(self._niter)` (-1: unbound)
    current_model,
    term1,
    term2,
    model_update,
    calls,          \* number of calls made of each evaluator
    stdout,         \* lines printed
    result,         \* the returned dict (NoResult until returned)
    raised,         \* the exception that left __call__ (NoExc if none)
    updates,        \* history: number of completed model updates
    thrown,         \* history: the exceptions evaluators raised, in order
    stage,          \* which call of the session this is
    history,        \* the calls that returned: initial model, niter, model, calls
    objs,           \* the array objects: which one each name is bound to
    args,           \* the model each evaluator was last called with
    events,         \* history: the steps of this call, in order
    evaluated       \* the call of a module-level function made, with its value

vars == <<problem, self, pc, i, current_model, term1, term2, model_update,
          calls, stdout, result, raised, updates, thrown, stage, history,
          objs, args, events, evaluated>>

NoResult == [model |-> None, success |-> FALSE]
NoCalls == [hessian |-> 0, gradient |-> 0, data_misfit |-> 0, regularisation |-> 0]
NoEvaluation == [fn |-> "", model |-> None, value |-> None]
NoArgs == [hessian |-> None, gradient |-> None, data_misfit |-> None,
           regularisation |-> None]

\* Arrays are objects: a name is bound to one (0: to none), several names may
\* be bound to the same one, and a write in place is seen through all of them.
\* self._model_0 is object 1; `passed` are the objects evaluators were given,
\* `written` those whose elements were assigned after they were made.
NoObjects == [model_0 |-> 1, current |-> 0, allocated |-> 1, passed |-> {}, written |-> {}]

\* np.array(x) (copy = True by default): a new array with the elements of x
NpArray(o) == [o EXCEPT !.allocated = @ + 1, !.current = o.allocated + 1]

\* current_model += model_update: the sum is stored in the array held
AddInPlace(o) == [o EXCEPT !.written = @ \cup {o.current}]

\* np.array(current_model + model_update): + makes a new array for the sum,
\* np.array a copy of it, and the name is bound to the copy
AddAndCopy(o) == [o EXCEPT !.allocated = @ + 2, !.current = o.allocated + 2]

\* f(current_model): the callee receives the object itself
PassCurrent(o) == [o EXCEPT !.passed = @ \cup {o.current}]

\* GaussNewton.__init__ over a problem with the given initial model and options
NewSolver(m0, niter, verbose, misfit_defined, reg_defined) ==
    [niter |-> niter, verbose |-> verbose, model_0 |-> m0,
     misfit |-> misfit_defined, reg |-> reg_defined]

InitialModels == UNION {{ConstVec(k, 0), ConstVec(k, 1)} : k \in Lens}

\* state at the call of __call__ on a freshly built solver
Entered(prob, slf) ==
    /\ problem = prob
    /\ self = slf
    /\ pc = "start"
    /\ i = -1
    /\ current_model = None
    /\ term1 = None
    /\ term2 = None
    /\ model_update = None
    /\ calls = NoCalls
    /\ stdout = <<>>
    /\ result = NoResult
    /\ raised = NoExc
    /\ updates = 0
    /\ thrown = <<>>
    /\ stage = "first"
    /\ history = <<>>
    /\ objs = NoObjects
    /\ args = NoArgs
    /\ events = <<>>
    /\ evaluated = NoEvaluation

OpaqueProblem == [kind |-> "opaque"]

\* a quadratic objective with a symmetric positive definite A
QuadraticProblems ==
    UNION {{[kind |-> "quadratic", A |-> a, b |-> b, hneg |-> 1, hpos |-> 1] :
              a \in {Diag(k, 1), Diag(k, 2), DiagPlusOnes(k)},
              b \in {ConstVec(k, 0), ConstVec(k, 1), UnitVec(k)}} : k \in Lens}

\* deterministic evaluators whose steps do not end after one iteration: the
\* gradient of a quadratic objective with twice its Hessian (half steps), on
\* all models or on those with a positive first entry only
InexactProblems ==
    {[q EXCEPT !.hneg = h, !.hpos = 2] : q \in QuadraticProblems, h \in {1, 2}}

\* the problem the script builds (set_gradient ... set_hessian), over a forward
\* operator whose log response is G.model, with Wm the identity
DesignMatrices ==
    UNION {{Diag(k, 1), DiagPlusOnes(k),
            Mat([r \in 1..(k + 1) |-> [j \in 1..k |-> IF r = j \/ r = k + 1 THEN 1 ELSE 0]])} :
           k \in Lens}

ErtProblems ==
    UNION {{[kind |-> "ert", forward_operator |-> [G |-> g.v], log_data |-> d,
             Wm |-> Diag(NCols(g), 1), lamda |-> R(l)] :
              d \in {ConstVec(NRows(g), 0), ConstVec(NRows(g), 1), UnitVec(NRows(g))},
              l \in {0, 1}} : g \in DesignMatrices}

\* the length of the model a problem is posed over
ModelLen(prob) ==
    CASE prob.kind = "quadratic" -> Size(prob.b)
      [] prob.kind \in {"ert", "functions"} -> Len(prob.forward_operator.G[1])

Solvers(models, niters) ==
    {NewSolver(m0, n, vb, md, rd) :
        m0 \in models, n \in niters, vb \in BOOLEAN, md \in BOOLEAN, rd \in BOOLEAN}

StartModels ==
    InitialModels \cup UNION {{UnitVec(k), ConstVec(k, 2), ConstVec(k, -1)} : k \in Lens}

InitOver(problems, niters) ==
    \E prob \in problems :
        \E slf \in Solvers({m0 \in StartModels : Size(m0) = ModelLen(prob)}, niters) :
            Entered(prob, slf)

InitQuadratic == InitOver(QuadraticProblems, 0..MaxNiter)

\* runs of at most one step over the script's problem
InitErt == InitOver(ErtProblems, {0, 1})

Init ==
    \E m0 \in InitialModels, n \in 0..MaxNiter, vb \in BOOLEAN, md \in BOOLEAN, rd \in BOOLEAN :
        Entered(OpaqueProblem, NewSolver(m0, n, vb, md, rd))

\* ------------------------------------------------------------- __call__
\* a start from the model the previous call returned, if there was one
WarmStartModel == IF history # <<>> THEN history[Len(history)].model ELSE self.model_0

\* the argument of np.array(self._model_0)
StartModel == self.model_0

\* current_model = np.array(self._model_0)
Start ==
    /\ pc = "start"
    /\ current_model' = StartModel
    /\ objs' = NpArray(objs)
    /\ events' = Append(events, <<"bind", -1>>)
    /\ pc' = "for"
    /\ UNCHANGED <<problem, self, i, term1, term2, model_update, calls, stdout,
                   result, raised, updates, thrown, stage, history, args, evaluated>>

\* a loop that also stops once an update was zero (a convergence test)
ContinueUnlessConverged == i + 1 < self.niter /\ ~IsZeroVec(model_update)

\* a loop whose body runs before the count is tested
ContinueAtLeastOnce == i + 1 < self.niter \/ i = -1

\* the loop condition of `for i in range(self._niter)`: one more value is left
Continue == i + 1 < self.niter

NextIteration ==
    /\ pc = "for"
    /\ Continue
    /\ i' = i + 1
    /\ pc' = "hessian"
    /\ UNCHANGED <<problem, self, current_model, term1, term2, model_update, calls,
                   stdout, result, raised, updates, thrown, stage, history,
                   objs, args, events, evaluated>>

LoopExit ==
    /\ pc = "for"
    /\ ~Continue
    /\ pc' = "return"
    /\ UNCHANGED <<problem, self, i, current_model, term1, term2, model_update, calls,
                   stdout, result, raised, updates, thrown, stage, history,
                   objs, args, events, evaluated>>

\* a handler that wraps whatever was raised in the solver's own error
PropagateWrapped(e) ==
    /\ raised' = [type |-> "RuntimeError", msg |-> "Gauss-Newton failed"]
    /\ pc' = "raised"

\* __call__ has no try/except: an exception raised inside it leaves it as it is
Propagate(e) ==
    /\ raised' = e
    /\ pc' = "raised"

\* an evaluator raised e during the call
EvaluatorRaised(who, e) ==
    /\ thrown' = Append(thrown, [who |-> who, exc |-> e, iteration |-> i])
    /\ Propagate(e)

\* the initial model, whatever the iteration
InitialModelHeld == self.model_0

\* the argument of self._hessian(current_model), self._gradient(current_model)
ModelHeld == current_model

\* term1 = self._hessian(current_model)
CallHessian ==
    /\ pc = "hessian"
    /\ \E o \in HessianOutcomes(problem, ModelHeld) :
        /\ calls' = [calls EXCEPT !.hessian = @ + 1]
        /\ args' = [args EXCEPT !.hessian = ModelHeld]
        /\ objs' = PassCurrent(objs)
        /\ events' = Append(events, <<"hessian", i>>)
        /\ IF o.ok
           THEN term1' = o.val /\ pc' = "gradient" /\ UNCHANGED <<raised, thrown>>
           ELSE EvaluatorRaised("hessian", o.exc) /\ UNCHANGED term1
    /\ UNCHANGED <<problem, self, i, current_model, term2, model_update, stdout,
                   result, updates, stage, history, evaluated>>

\* term2 = - self._gradient(current_model)
CallGradient ==
    /\ pc = "gradient"
    /\ \E o \in GradientOutcomes(problem, ModelHeld) :
        /\ calls' = [calls EXCEPT !.gradient = @ + 1]
        /\ args' = [args EXCEPT !.gradient = ModelHeld]
        /\ objs' = PassCurrent(objs)
        /\ events' = Append(events, <<"gradient", i>>)
        /\ IF o.ok
           THEN term2' = Negative(o.val) /\ pc' = "solve" /\ UNCHANGED <<raised, thrown>>
           ELSE EvaluatorRaised("gradient", o.exc) /\ UNCHANGED term2
    /\ UNCHANGED <<problem, self, i, current_model, term1, model_update, stdout,
                   result, updates, stage, history, evaluated>>

\* model_update = np.linalg.solve(term1, term2)
Solve ==
    /\ pc = "solve"
    /\ LET o == LinalgSolve(term1, term2)
       IN  IF o.ok
           THEN model_update' = o.val /\ pc' = "update" /\ UNCHANGED raised
           ELSE Propagate(o.exc) /\ UNCHANGED model_update
    /\ events' = Append(events, <<"solve", i>>)
    /\ UNCHANGED <<problem, self, i, current_model, term1, term2, calls, stdout,
                   result, updates, thrown, stage, history, objs, args, evaluated>>

\* an update whose step shrinks with the iteration index
UpdateDamped ==
    /\ pc = "update"
    /\ LET o == Add(current_model,
                    A1([k \in 1..Size(model_update) |->
                          RDiv(model_update.v[k], R(i + 1))]))
       IN  IF o.ok
           THEN /\ current_model' = o.val
                /\ objs' = AddAndCopy(objs)
                /\ events' = Append(events, <<"update", i>>)
                /\ updates' = updates + 1
                /\ pc' = "verbose"
                /\ UNCHANGED raised
           ELSE Propagate(o.exc) /\ UNCHANGED <<current_model, updates, objs, events>>
    /\ UNCHANGED <<problem, self, i, term1, term2, model_update, calls, stdout,
                   result, thrown, stage, history, args, evaluated>>

\* current_model = np.array(current_model + model_update)
Update ==
    /\ pc = "update"
    /\ LET o == Add(current_model, model_update)
       IN  IF o.ok
           THEN /\ current_model' = o.val
                /\ objs' = AddAndCopy(objs)
                /\ events' = Append(events, <<"update", i>>)
                /\ updates' = updates + 1
                /\ pc' = "verbose"
                /\ UNCHANGED raised
           ELSE Propagate(o.exc) /\ UNCHANGED <<current_model, updates, objs, events>>
    /\ UNCHANGED <<problem, self, i, term1, term2, model_update, calls, stdout,
                   result, thrown, stage, history, args, evaluated>>

\* a report that is made whatever the verbose option is
VerboseAlways ==
    /\ pc = "verbose"
    /\ stdout' = stdout \o <<<<"-", 80>>, <<"Iteration", i + 1>>>>
    /\ pc' = "misfit"
    /\ UNCHANGED <<problem, self, i, current_model, term1, term2, model_update, calls,
                   result, raised, updates, thrown, stage, history, objs, args, events, evaluated>>

\* if self._verbose: print("-" * 80); print(f"Iteration {i+1}")
Verbose ==
    /\ pc = "verbose"
    /\ IF self.verbose
       THEN /\ stdout' = stdout \o <<<<"-", 80>>, <<"Iteration", i + 1>>>>
            /\ pc' = "misfit"
       ELSE /\ pc' = "for"
            /\ UNCHANGED stdout
    /\ UNCHANGED <<problem, self, i, current_model, term1, term2, model_update, calls,
                   result, raised, updates, thrown, stage, history, objs, args, events, evaluated>>

\* the model the iteration's evaluators were called with
ModelBeforeUpdate == args.hessian

\* the argument of self._misfit(current_model), self._reg(current_model)
ReportedModel == current_model

\* if self._misfit: print(self._misfit(current_model))
ReportMisfit ==
    /\ pc = "misfit"
    /\ IF self.misfit
       THEN \E o \in MisfitOutcomes(problem, ReportedModel) :
                /\ calls' = [calls EXCEPT !.data_misfit = @ + 1]
                /\ args' = [args EXCEPT !.data_misfit = ReportedModel]
                /\ objs' = PassCurrent(objs)
                /\ events' = Append(events, <<"data_misfit", i>>)
                /\ IF o.ok
                   THEN /\ stdout' = Append(stdout, <<"data_misfit", i + 1>>)
                        /\ pc' = "reg"
                        /\ UNCHANGED <<raised, thrown>>
                   ELSE EvaluatorRaised("data_misfit", o.exc) /\ UNCHANGED stdout
       ELSE pc' = "reg" /\ UNCHANGED <<calls, stdout, raised, thrown, objs, args, events>>
    /\ UNCHANGED <<problem, self, i, current_model, term1, term2, model_update,
                   result, updates, stage, history, evaluated>>

\* if self._reg: print(self._reg(current_model))
ReportReg ==
    /\ pc = "reg"
    /\ IF self.reg
       THEN \E o \in RegOutcomes(problem, ReportedModel) :
                /\ calls' = [calls EXCEPT !.regularisation = @ + 1]
                /\ args' = [args EXCEPT !.regularisation = ReportedModel]
                /\ objs' = PassCurrent(objs)
                /\ events' = Append(events, <<"regularisation", i>>)
                /\ IF o.ok
                   THEN /\ stdout' = Append(stdout, <<"regularisation", i + 1>>)
                        /\ pc' = "for"
                        /\ UNCHANGED <<raised, thrown>>
                   ELSE EvaluatorRaised("regularisation", o.exc) /\ UNCHANGED stdout
       ELSE pc' = "for" /\ UNCHANGED <<calls, stdout, raised, thrown, objs, args, events>>
    /\ UNCHANGED <<problem, self, i, current_model, term1, term2, model_update,
                   result, updates, stage, history, evaluated>>

\* a result whose flag reports whether any step was taken
ResultDictStepped(model) == [model |-> model, success |-> updates > 0]

\* return {"model": current_model, "success": True}
ResultDict(model) == [model |-> model, success |-> TRUE]

Return ==
    /\ pc = "return"
    /\ result' = ResultDict(current_model)
    /\ pc' = "returned"
    /\ history' = Append(history, [model_0 |-> self.model_0, niter |-> self.niter,
                                    model |-> current_model, calls |-> calls,
                                    stdout |-> stdout])
    /\ events' = Append(events, <<"return", i>>)
    /\ UNCHANGED <<problem, self, i, current_model, term1, term2, model_update, calls,
                   stdout, raised, updates, thrown, stage, objs, args, evaluated>>

Next ==
    \/ Start
    \/ NextIteration
    \/ LoopExit
    \/ CallHessian
    \/ CallGradient
    \/ Solve
    \/ Update
    \/ Verbose
    \/ ReportMisfit
    \/ ReportReg
    \/ Return

Spec == Init /\ [][Next]_vars
SpecQuadratic == InitQuadratic /\ [][Next]_vars
SpecErt == InitErt /\ [][Next]_vars

\* ------------------------------------------------------------- sessions
\* The caller builds another GaussNewton over the same problem and options,
\* with a new initial model and iteration count, and calls it.
BeginCall(m0, niter) ==
    /\ self' = NewSolver(m0, niter, self.verbose, self.misfit, self.reg)
    /\ pc' = "start"
    /\ i' = -1
    /\ current_model' = None
    /\ term1' = None
    /\ term2' = None
    /\ model_update' = None
    /\ calls' = NoCalls
    /\ stdout' = <<>>
    /\ result' = NoResult
    /\ raised' = NoExc
    /\ updates' = 0
    /\ thrown' = <<>>
    /\ objs' = NoObjects
    /\ args' = NoArgs
    /\ events' = <<>>
    /\ UNCHANGED <<problem, history, evaluated>>

\* continue from the returned model, for no or for one more iteration
ContinueRun ==
    /\ pc = "returned"
    /\ stage = "first"
    /\ \E n \in {0, 1} : BeginCall(result.model, n)
    /\ stage' = "continued"

\* the same iterations in one call, from the first initial model
ReferenceRun ==
    /\ pc = "returned"
    /\ stage = "continued"
    /\ BeginCall(history[1].model_0, history[1].niter + history[2].niter)
    /\ stage' = "reference"

NextSession == Next \/ ContinueRun \/ ReferenceRun

InitSession == InitOver(InexactProblems, 0..MaxNiter)
SpecSession == InitSession /\ [][NextSession]_vars

\* ------------------------------------------------------------- repeated calls
\* The caller calls the same GaussNewton instance once more: __call__ starts
\* with its locals unbound; self, the problem and the arrays made so far stay.
CallAgain ==
    /\ pc = "returned"
    /\ stage = "first"
    /\ stage' = "again"
    /\ pc' = "start"
    /\ i' = -1
    /\ current_model' = None
    /\ term1' = None
    /\ term2' = None
    /\ model_update' = None
    /\ calls' = NoCalls
    /\ result' = NoResult
    /\ updates' = 0
    /\ thrown' = <<>>
    /\ objs' = [objs EXCEPT !.current = 0]
    /\ args' = NoArgs
    /\ events' = <<>>
    /\ UNCHANGED <<problem, self, stdout, raised, history, evaluated>>

NextRepeat == Next \/ CallAgain

InitRepeat == InitOver(InexactProblems, 0..MaxNiter)
SpecRepeat == InitRepeat /\ [][NextRepeat]_vars

\* ------------------------------------------------------------- the functions
\* The functions each file defines, called with the arguments the scripts
\* register them with (args = [log_data, forward_operator, Wm, lamda]) and,
\* in pygimli_dcip_lib.py, with or without a data_cov_inv.
Files == {"pygimli_ert_gauss_newton", "pygimli_ert_scipy_minimize", "pygimli_dcip_lib"}

\* a scalar returned by numpy
A0(x) == [nd |-> 0, v |-> <<x>>]

DataMisfitOf(prob, model) ==
    CASE prob.file = "pygimli_ert_gauss_newton" ->
            get_data_misfit(model, prob.log_data, prob.forward_operator)
      [] prob.file = "pygimli_ert_scipy_minimize" ->
            scipy_get_data_misfit(model, prob.log_data, prob.forward_operator)
      [] prob.file = "pygimli_dcip_lib" ->
            dcip_get_data_misfit(model, prob.log_data, prob.forward_operator,
                                 prob.data_cov_inv)

RegularisationOf(prob, model) ==
    CASE prob.file = "pygimli_ert_gauss_newton" ->
            get_regularisation(model, prob.Wm, prob.lamda)
      [] prob.file = "pygimli_ert_scipy_minimize" ->
            scipy_get_regularisation(model, prob.Wm, prob.lamda)
      [] prob.file = "pygimli_dcip_lib" ->
            dcip_get_regularisation(model, prob.Wm, prob.lamda)

ObjectiveOf(prob, model) ==
    CASE prob.file = "pygimli_ert_gauss_newton" ->
            get_objective(model, prob.log_data, prob.forward_operator, prob.Wm, prob.lamda)
      [] prob.file = "pygimli_ert_scipy_minimize" ->
            scipy_get_objective(model, prob.log_data, prob.forward_operator, prob.Wm,
                                prob.lamda)
      [] prob.file = "pygimli_dcip_lib" ->
            dcip_get_objective(model, prob.log_data, prob.forward_operator, prob.Wm,
                               prob.lamda, prob.data_cov_inv)

GradientOf(prob, model) ==
    CASE prob.file = "pygimli_ert_gauss_newton" ->
            get_gradient(model, prob.log_data, prob.forward_operator, prob.Wm, prob.lamda)
      [] prob.file = "pygimli_ert_scipy_minimize" ->
            scipy_get_gradient(model, prob.log_data, prob.forward_operator, prob.Wm,
                               prob.lamda)
      [] prob.file = "pygimli_dcip_lib" ->
            dcip_get_gradient(model, prob.log_data, prob.forward_operator, prob.Wm,
                              prob.lamda, prob.data_cov_inv)

HessianOf(prob, model) ==
    CASE prob.file = "pygimli_ert_gauss_newton" ->
            get_hessian(model, prob.log_data, prob.forward_operator, prob.Wm, prob.lamda)
      [] prob.file = "pygimli_ert_scipy_minimize" ->
            scipy_get_hessian(model, prob.log_data, prob.forward_operator, prob.Wm,
                              prob.lamda)
      [] prob.file = "pygimli_dcip_lib" ->
            dcip_get_hessian(model, prob.log_data, prob.forward_operator, prob.Wm,
                             prob.lamda, prob.data_cov_inv)

JacobianOf(prob, model) ==
    CASE prob.file \in {"pygimli_ert_gauss_newton", "pygimli_ert_scipy_minimize"} ->
            get_jacobian(model, prob.forward_operator)
      [] prob.file = "pygimli_dcip_lib" ->
            dcip_get_jacobian(model, prob.forward_operator)

\* regularisation matrices: the identity, and first differences under a unit row
Smoothing(k) ==
    Mat([r \in 1..k |-> [j \in 1..k |-> IF r = j THEN 1 ELSE IF r = j + 1 THEN -1 ELSE 0]])

\* data_cov_inv: not given, the identity, or weights other than one
Weightings(n) == {None, Diag(n, 1), Diag(n, 2)}

FunctionProblems ==
    UNION {{[kind |-> "functions", file |-> f, forward_operator |-> [G |-> g.v],
             log_data |-> d, Wm |-> w, lamda |-> R(l), data_cov_inv |-> c] :
              f \in Files,
              d \in {ConstVec(NRows(g), 0), ConstVec(NRows(g), 1), UnitVec(NRows(g))},
              w \in {Diag(NCols(g), 1), Smoothing(NCols(g))},
              l \in {0, 1},
              c \in Weightings(NRows(g))} : g \in DesignMatrices}

NoSolver == NewSolver(None, 0, FALSE, FALSE, FALSE)

\* the file was run up to the definition of its functions: no solver exists
Imported(prob) ==
    /\ problem = prob
    /\ self = NoSolver
    /\ pc = "module"
    /\ i = -1
    /\ current_model = None
    /\ term1 = None
    /\ term2 = None
    /\ model_update = None
    /\ calls = NoCalls
    /\ stdout = <<>>
    /\ result = NoResult
    /\ raised = NoExc
    /\ updates = 0
    /\ thrown = <<>>
    /\ stage = "first"
    /\ history = <<>>
    /\ objs = NoObjects
    /\ args = NoArgs
    /\ events = <<>>
    /\ evaluated = NoEvaluation

\* only pygimli_dcip_lib.py takes a data_cov_inv
InitFunctions ==
    \E prob \in {q \in FunctionProblems :
                    q.file = "pygimli_dcip_lib" \/ q.data_cov_inv = None} :
        Imported(prob)

\* one call fn(model, *args): pygimli_dcip_lib's get_response prints the
\* exponentiated model on every call that reaches it
\* the value fn returns (a scalar, a vector or a matrix)
ValueOf(fn, prob, model) ==
    CASE fn = "get_data_misfit" -> A0(DataMisfitOf(prob, model))
      [] fn = "get_regularisation" -> A0(RegularisationOf(prob, model))
      [] fn = "get_objective" -> A0(ObjectiveOf(prob, model))
      [] fn = "get_gradient" -> GradientOf(prob, model)
      [] fn = "get_hessian" -> HessianOf(prob, model)

CallFunction(fn) ==
    /\ evaluated = NoEvaluation
    /\ \E model \in {m \in StartModels : Size(m) = ModelLen(problem)} :
          /\ evaluated' = [fn |-> fn, model |-> model, value |-> ValueOf(fn, problem, model)]
          /\ stdout' = IF problem.file = "pygimli_dcip_lib" /\ fn # "get_regularisation"
                        THEN Append(stdout, <<"x_re_im", ExpVec(model.v)>>)
                        ELSE stdout
    /\ UNCHANGED <<problem, self, pc, i, current_model, term1, term2, model_update,
                   calls, result, raised, updates, thrown, stage, history, objs, args,
                   events>>

Call_get_data_misfit == pc = "module" /\ CallFunction("get_data_misfit")
Call_get_regularisation == pc = "module" /\ CallFunction("get_regularisation")
Call_get_objective == pc = "module" /\ CallFunction("get_objective")
Call_get_gradient == pc = "module" /\ CallFunction("get_gradient")
Call_get_hessian == pc = "module" /\ CallFunction("get_hessian")

NextFunctions ==
    \/ Call_get_data_misfit
    \/ Call_get_regularisation
    \/ Call_get_objective
    \/ Call_get_gradient
    \/ Call_get_hessian

SpecFunctions == InitFunctions /\ [][NextFunctions]_vars

\* ------------------------------------------------------------- properties
M == Size(self.model_0)
Returned == pc = "returned"
Failed == pc = "raised"

\* C1: __call__ performs exactly niter update steps, with exactly niter Hessian
\* and niter gradient evaluations, before it returns; a zero gradient or a zero
\* update never ends the loop early.
C1_ExactlyNiterSteps ==
    /\ updates <= self.niter
    /\ calls.hessian <= self.niter
    /\ calls.gradient <= self.niter
    /\ pc \in {"return", "returned"} =>
          /\ updates = self.niter
          /\ calls.hessian = self.niter
          /\ calls.gradient = self.niter

\* both steps of a two-iteration run were zero steps, and both were taken
C1_Witness ==
    /\ Returned
    /\ self.niter = 2
    /\ updates = 2
    /\ IsZeroVec(term2)
    /\ IsZeroVec(model_update)
    /\ result.model = self.model_0

\* C2: every returned result carries success = TRUE; before the return there
\* is no result at all.
C2_SuccessAlwaysTrue ==
    /\ Returned => result.success = TRUE
    /\ ~Returned => result = NoResult

C2_Witness == Returned /\ result.success /\ updates = 2

C4_MismatchFailsBeforeUpdate ==
    pc = "verbose" => (IsSquare(term1, M) /\ Size(term2) = M)

\* C5: an error raised by an evaluator at iteration i leaves __call__ as the
\* same error; the failed evaluator was called once per iteration up to and
\* including i (no retry), no evaluator is called for a later iteration, and
\* no result is returned.
C5_EvaluatorErrorPropagates ==
    thrown # <<>> =>
        /\ Len(thrown) = 1
        /\ Failed
        /\ raised = thrown[1].exc
        /\ result = NoResult
        /\ thrown[1].iteration = i
        /\ calls[thrown[1].who] = i + 1
        /\ \A w \in DOMAIN calls : calls[w] <= i + 1
        /\ updates <= i + 1

C5_Witness ==
    /\ thrown # <<>>
    /\ thrown[1].who = "regularisation"
    /\ raised = thrown[1].exc
    /\ i = 1

\* C6 (as claimed): a failure reaches the caller together with the index of
\* the iteration it occurred in.
IterationOf(e) == IF "iteration" \in DOMAIN e THEN e.iteration ELSE 0

C6_FailureCarriesIteration == Failed => IterationOf(raised) = i + 1

\* C7: for a quadratic objective with its analytic gradient and Hessian
\* (Hessian positive definite), the model after the first update is the exact
\* minimiser, whatever the initial model, and no later update changes it.
Neighbours(m) ==
    {A1([k \in 1..Size(m) |-> IF k = j THEN RAdd(m.v[k], R(s)) ELSE m.v[k]]) :
        j \in 1..Size(m), s \in {-1, 1}}

IsMinimiser(prob, m) ==
    /\ IsZeroVec(QuadGradient(prob, m))
    /\ \A x \in Neighbours(m) \cup {x \in StartModels : Size(x) = Size(m)} :
          RLe(QuadObjective(prob, m), QuadObjective(prob, x))

C7_OneStepReachesMinimum ==
    /\ []((Returned /\ self.niter >= 1) => IsMinimiser(problem, result.model))
    /\ [][updates >= 1 => current_model' = current_model]_vars

C7_Witness ==
    /\ Returned
    /\ self.niter = 2
    /\ updates = 2
    /\ result.model # self.model_0
    /\ IsMinimiser(problem, result.model)

\* C8 (as claimed): with lamda = 0 and a forward model whose response is G.m,
\* one update step from m returns m itself exactly if m solves the normal
\* equations G^T G m = G^T d.
IsOLS(prob, m) ==
    LET G == prob.forward_operator.G
    IN  MatVec(MatMul(Transpose(G), G), m.v) = MatVec(Transpose(G), prob.log_data.v)

FirstStepDone == i = 0 /\ thrown = <<>> /\ pc \in {"verbose", "raised"}
IsFixedPoint == pc = "verbose" /\ current_model = self.model_0

C8_FixedPointIffOLS ==
    (problem.lamda = Zero /\ FirstStepDone) => (IsFixedPoint <=> IsOLS(problem, self.model_0))

\* what holds instead: the equivalence for models with positive entries only
AllPositive(m) == \A k \in 1..Size(m) : m.v[k][2] # 0 /\ m.v[k][1] > 0

C8_Positive ==
    (problem.lamda = Zero /\ FirstStepDone /\ AllPositive(self.model_0)) =>
        (IsFixedPoint <=> IsOLS(problem, self.model_0))

C8_PositiveWitness ==
    /\ problem.lamda = Zero /\ FirstStepDone /\ AllPositive(self.model_0)
    /\ IsFixedPoint
    /\ Size(self.model_0) = 2

\* C9: a call with niter = 0 returns its initial model and calls no
\* evaluator; so continuing a finished run for 0 more iterations returns the
\* model that run returned.
C9_ZeroIterationsChangeNothing ==
    /\ \A c \in 1..Len(history) :
          history[c].niter = 0 =>
              /\ history[c].model = history[c].model_0
              /\ history[c].calls = NoCalls
    /\ (Len(history) >= 2 /\ history[2].niter = 0) =>
          history[2].model = history[1].model

C9_Witness ==
    /\ Len(history) >= 2
    /\ history[1].niter = 2
    /\ history[1].model # history[1].model_0
    /\ history[2].niter = 0
    /\ history[2].model = history[1].model

\* C10: with deterministic evaluators, k iterations and then one more in a new
\* call from the returned model give the model that k + 1 iterations give in
\* one call from the same initial model.
C10_IterationComposable ==
    (Len(history) = 3 /\ history[2].niter = 1) =>
        /\ history[2].model_0 = history[1].model
        /\ history[3].model_0 = history[1].model_0
        /\ history[3].niter = history[1].niter + 1
        /\ history[3].model = history[2].model

C10_Witness ==
    /\ Len(history) = 3
    /\ history[1].niter = 2
    /\ history[2].niter = 1
    /\ history[1].model # history[1].model_0
    /\ history[2].model # history[1].model
    /\ history[3].model = history[2].model

\* C11 (as claimed): whenever the call has a running model, and in the result
\* it returns, the model has the length M of the initial model.
C11_ModelLengthConstant ==
    /\ current_model # None => (current_model.nd = 1 /\ Size(current_model) = M)
    /\ Returned => Size(result.model) = M

\* C12: __call__ never writes to the stored initial model and never writes in
\* place to an array it has passed to an evaluator: the running model is
\* never the initial model's array, and every update binds an array that did
\* not exist before.
C12_OwnsRunningModel ==
    /\ [](/\ objs.written \cap ({objs.model_0} \cup objs.passed) = {}
          /\ objs.current # objs.model_0)
    /\ [][/\ self'.model_0 = self.model_0
          /\ objs'.model_0 = objs.model_0
          /\ updates' # updates =>
                (objs'.current \notin 1..objs.allocated /\ objs'.current \notin objs'.passed)]_vars

\* two updates were made, each passed array is still as it was passed
C12_Witness ==
    /\ Returned
    /\ updates = 2
    /\ result.model # self.model_0
    /\ Cardinality(objs.passed) = 2
    /\ objs.written = {}
    /\ objs.current \notin objs.passed

\* C13: without verbose nothing is printed and neither report function is
\* called; with verbose each is called only if the problem defines it, once
\* per completed iteration and after that iteration's update; with neither
\* defined the report makes no call and cannot fail.
C13_ReportOnlyWhatIsSupplied ==
    /\ [](/\ ~self.verbose =>
                (calls.data_misfit = 0 /\ calls.regularisation = 0 /\ stdout = <<>>)
          /\ ~self.misfit => calls.data_misfit = 0
          /\ ~self.reg => calls.regularisation = 0
          /\ calls.data_misfit <= updates
          /\ calls.regularisation <= updates
          /\ (pc \in {"for", "return", "returned"} /\ self.verbose) =>
                /\ self.misfit => calls.data_misfit = updates
                /\ self.reg => calls.regularisation = updates
                /\ Len(stdout) = updates * (2 + (IF self.misfit THEN 1 ELSE 0)
                                               + (IF self.reg THEN 1 ELSE 0)))
    /\ [][(pc \in {"verbose", "misfit", "reg"} /\ ~self.misfit /\ ~self.reg) =>
            (/\ pc' \in {"misfit", "reg", "for"}
             /\ calls' = calls
             /\ raised' = NoExc
             /\ current_model' = current_model)]_vars

\* a verbose run over a problem that defines the regularisation only
C13_Witness ==
    /\ Returned
    /\ self.verbose /\ ~self.misfit /\ self.reg
    /\ updates = 2
    /\ calls.data_misfit = 0
    /\ calls.regularisation = 2
    /\ Len(stdout) = 6

\* C14: the update of an iteration replaces the model m held before it by
\* m + delta, where H.delta = -g and H, g are what the Hessian and gradient
\* evaluators return for that same m (both were called with m).
C14_NewtonStepAtHeldModel ==
    [][(pc = "update" /\ pc' = "verbose") =>
        (/\ args.hessian = current_model
         /\ args.gradient = current_model
         /\ Ok(term1) \in HessianOutcomes(problem, current_model)
         /\ \E o \in GradientOutcomes(problem, current_model) :
                o.ok /\ term2 = Negative(o.val)
         /\ MatVec(term1.v, model_update.v) = term2.v
         /\ current_model' = A1(VecAdd(current_model.v, model_update.v)))]_vars

\* the second update of a run, from a model that is not the initial one, with
\* a step that is not zero
C14_Witness ==
    /\ pc = "verbose"
    /\ i = 1
    /\ args.hessian # self.model_0
    /\ args.gradient = args.hessian
    /\ ~IsZeroVec(model_update)
    /\ QuadGradient(problem, args.gradient) # QuadGradient(problem, self.model_0)
    /\ current_model = A1(VecAdd(args.hessian.v, model_update.v))

\* C15: the steps of a call happen in the order hessian, gradient, solve,
\* update, then (verbose) misfit report, regularisation report, iteration
\* after iteration: no step of iteration k + 1 precedes the update of
\* iteration k, and each report is evaluated on the model that update bound.
IterationSteps(k) ==
    <<<<"hessian", k>>, <<"gradient", k>>, <<"solve", k>>, <<"update", k>>>>
    \o (IF self.verbose /\ self.misfit THEN <<<<"data_misfit", k>>>> ELSE <<>>)
    \o (IF self.verbose /\ self.reg THEN <<<<"regularisation", k>>>> ELSE <<>>)

RECURSIVE StepsUpTo(_)
StepsUpTo(k) == IF k < 0 THEN <<<<"bind", -1>>>> ELSE StepsUpTo(k - 1) \o IterationSteps(k)

StepsInOrder == StepsUpTo(self.niter - 1) \o <<<<"return", self.niter - 1>>>>

UpdatedModel(k) == \E j \in 1..Len(events) : events[j] = <<"update", k>>

C15_StepsInOrder ==
    /\ [](/\ Len(events) <= Len(StepsInOrder)
          /\ \A j \in 1..Len(events) : events[j] = StepsInOrder[j]
          /\ pc = "hessian" => (i = 0 \/ UpdatedModel(i - 1)))
    /\ [][/\ calls'.data_misfit # calls.data_misfit =>
                (UpdatedModel(i) /\ args'.data_misfit = current_model)
          /\ calls'.regularisation # calls.regularisation =>
                (UpdatedModel(i) /\ args'.regularisation = current_model)
          /\ (pc = "update" /\ pc' = "verbose") =>
                (~UpdatedModel(i) /\ args.hessian = current_model)]_vars

\* a verbose run of two iterations with both reports, whose last report was
\* made on the model returned
C15_Witness ==
    /\ Returned
    /\ self.verbose /\ self.misfit /\ self.reg
    /\ self.niter = 2
    /\ events = StepsInOrder
    /\ Len(events) = 14
    /\ args.regularisation = result.model
    /\ args.regularisation # args.hessian

\* C16 (as claimed): in each of the three files, get_gradient(m) is the
\* derivative of get_objective at m and get_hessian(m) the derivative of
\* get_gradient at m.  With a response that is linear in the model the
\* objective and the gradient are polynomials of degree at most 2, whose
\* derivative is their central difference; the comparison is made wherever
\* the values differenced are exact.
Shift(m, k, s) ==
    A1([j \in 1..Size(m) |-> IF j = k THEN RAdd(m.v[j], R(s)) ELSE m.v[j]])

Half(x) == RMul(<<1, 2>>, x)

DObjective(prob, m) ==
    A1([k \in 1..Size(m) |->
          Half(RSub(ObjectiveOf(prob, Shift(m, k, 1)), ObjectiveOf(prob, Shift(m, k, -1))))])

DGradient(prob, m) ==
    A2([r \in 1..Size(m) |-> [c \in 1..Size(m) |->
          Half(RSub(GradientOf(prob, Shift(m, c, 1)).v[r],
                    GradientOf(prob, Shift(m, c, -1)).v[r]))]])

IsExactMatrix(a) == \A r \in 1..Len(a.v) : IsExact(a.v[r])

GradientIsDerivative ==
    (evaluated.fn = "get_gradient" /\ IsExact(DObjective(problem, evaluated.model).v)) =>
        evaluated.value = DObjective(problem, evaluated.model)

HessianIsDerivative ==
    (evaluated.fn = "get_hessian" /\ IsExactMatrix(DGradient(problem, evaluated.model))) =>
        evaluated.value = DGradient(problem, evaluated.model)

C16_UniformFactorConvention == GradientIsDerivative /\ HessianIsDerivative

\* C17: get_hessian(m) is J^T.C.J + lamda.Wm^T.Wm, entry by entry, with J the
\* rescaled Jacobian get_jacobian returns at m and C the data_cov_inv
\* supplied; without one (None, or a file whose functions take none) it is
\* the Hessian for C = the N x N identity.
Weighted(J, C, Wm, lamda) ==
    A2([a \in 1..Len(J[1]) |-> [b \in 1..Len(J[1]) |->
        RAdd(SumSeq([r \in 1..Len(J) |->
                 SumSeq([q \in 1..Len(J) |-> RMul(RMul(J[r][a], C[r][q]), J[q][b])])]),
             RMul(lamda, SumSeq([r \in 1..Len(Wm) |-> RMul(Wm[r][a], Wm[r][b])])))]])

Identity(n) == [r \in 1..n |-> [q \in 1..n |-> IF r = q THEN R(1) ELSE R(0)]]

C17_HessianFormula ==
    evaluated.fn = "get_hessian" =>
        LET J == JacobianOf(problem, evaluated.model).v
            N == Size(problem.log_data)
        IN  /\ Len(J) = N
            /\ problem.data_cov_inv # None =>
                  evaluated.value = Weighted(J, problem.data_cov_inv.v, problem.Wm.v,
                                             problem.lamda)
            /\ problem.data_cov_inv = None =>
                  /\ evaluated.value = Weighted(J, Identity(N), problem.Wm.v, problem.lamda)
                  /\ problem.file = "pygimli_dcip_lib" =>
                        evaluated.value =
                            HessianOf([problem EXCEPT !.data_cov_inv = A2(Identity(N))],
                                      evaluated.model)

\* a Hessian of pygimli_dcip_lib.py under weights other than one, with both
\* terms present
C17_Witness ==
    /\ evaluated.fn = "get_hessian"
    /\ problem.file = "pygimli_dcip_lib"
    /\ problem.data_cov_inv = Diag(3, 2)
    /\ problem.lamda = R(1)
    /\ problem.Wm = Smoothing(2)
    /\ evaluated.model = ConstVec(2, 1)
    /\ evaluated.value = Mat(<<<<6, 1>>, <<1, 5>>>>)

\* C18 (as claimed): in every file get_regularisation(model, Wm, lamda) is
\* lamda * |Wm.model|^2 of the model it is given: lamda * (sum of squares of
\* the model) for Wm the identity, 0 for lamda = 0; and get_objective is
\* get_data_misfit plus that term.  Compared where the value returned is exact.
SumOfSquares(x) == SumSeq([k \in 1..Len(x) |-> RMul(x[k], x[k])])

Penalty(prob, model) ==
    RMul(prob.lamda,
         SumOfSquares([r \in 1..Len(prob.Wm.v) |->
             SumSeq([c \in 1..Len(model.v) |-> RMul(prob.Wm.v[r][c], model.v[c])])]))

RegularisationOnGivenModel ==
    /\ (evaluated.fn = "get_regularisation" /\ IsExact(evaluated.value.v)) =>
          /\ evaluated.value = A0(Penalty(problem, evaluated.model))
          /\ problem.Wm = Diag(Size(evaluated.model), 1) =>
                evaluated.value = A0(RMul(problem.lamda, SumOfSquares(evaluated.model.v)))
          /\ problem.lamda = Zero => evaluated.value = A0(Zero)
    /\ (evaluated.fn = "get_objective" /\ IsExact(evaluated.value.v)) =>
          evaluated.value = A0(RAdd(DataMisfitOf(problem, evaluated.model),
                                    Penalty(problem, evaluated.model)))

C18_RegularisationInEveryFile == RegularisationOnGivenModel

\* what holds instead: the same for the two ERT files, and for
\* pygimli_dcip_lib.py the term of the exponentiated model
C18_RegularisationErtFiles ==
    IF problem.file = "pygimli_dcip_lib"
    THEN /\ evaluated.fn = "get_regularisation" =>
               evaluated.value =
                   A0(Penalty(problem, A1(ExpVec(evaluated.model.v))))
         /\ evaluated.fn = "get_objective" =>
               evaluated.value =
                   A0(RAdd(DataMisfitOf(problem, evaluated.model),
                           Penalty(problem, A1(ExpVec(evaluated.model.v)))))
    ELSE RegularisationOnGivenModel

\* C19: with deterministic evaluators a second call of the same instance
\* returns the model the first call returned, after the same evaluator calls:
\* it starts from the stored initial model, which no call changes, and reads
\* nothing the first call wrote.
C19_RepeatedCallRestarts ==
    /\ [](/\ Len(history) = 2 =>
                /\ history[2].model_0 = history[1].model_0
                /\ history[2].niter = history[1].niter
                /\ history[2].model = history[1].model
                /\ history[2].calls = history[1].calls
          /\ (pc = "for" /\ i = -1) => current_model = self.model_0
          /\ objs.model_0 \notin objs.written)
    /\ [][/\ self' = self
          /\ pc = "start" =>
                (/\ current_model = None /\ term1 = None /\ term2 = None
                 /\ model_update = None /\ i = -1
                 /\ current_model' = self.model_0)]_vars

\* the second call of a two-iteration run returned; the first had moved away
\* from the initial model
C19_Witness ==
    /\ Returned
    /\ stage = "again"
    /\ Len(history) = 2
    /\ history[1].niter = 2
    /\ history[1].model # history[1].model_0
    /\ history[2].model = history[1].model
    /\ result.model = history[1].model

====
